---- MODULE Spec2Model ----
(***************************************************************************)
(* Model of the hybrid API + HTML collector (package hybrid_collector):    *)
(* the retrying fetchers of api_client.py and scraper.py, the JSON path    *)
(* extraction of api_client.py and the record normalisation of             *)
(* normalizer.py.                                                          *)
(*                                                                         *)
(* Python strings that the code takes apart are sequences: JSON paths and  *)
(* numeric literals of one-character strings, mapping expressions of       *)
(* dot-free pieces with every dot a piece of its own.  Strings that the    *)
(* code only passes around or joins are TLA+ strings.                      *)
(***************************************************************************)
EXTENDS Integers, Sequences, FiniteSets, TLC

VARIABLES
    pc,            \* position of the fetch call: idle, attempting, returned, raised
    variant,       \* which fetcher runs: "api" (ApiClient.fetch) or "html" (HtmlScraper.fetch_and_parse)
    cfg,           \* source.api / source.html: "absent" (None), "disabled", "enabled"
    url_template,  \* api_cfg.base_url / html_cfg.url, a sequence of literal and placeholder tokens
    context,       \* the context argument: [given |-> BOOLEAN, m |-> mapping]
    max_retries,   \* self.max_retries
    json_key_map,  \* api_cfg.json_key_map
    url,           \* local url
    attempt,       \* loop variable attempt
    last_status,   \* local last_status (NoStatus for None)
    last_error,    \* local last_error (NoError for None, else the request that raised it)
    requests,      \* the requests issued to the transport so far, as the URLs they went to
    responses,     \* what the upstream answered to each request
    result,        \* the value the call returned
    error,         \* the exception the call raised
    jdata,         \* extract_json_value: argument data
    jpath,         \* extract_json_value: argument path
    jout,          \* extract_json_value: outcome
    jpc,           \* extract_json_value: "input" before the call, "done" after it
    nfields,       \* normalize_record: source.mapping.unified_fields, in declaration order
    ntypes,        \* normalize_record: source.mapping.field_types
    napi,          \* normalize_record: argument api_values, [given |-> BOOLEAN, m |-> dict]
    nhtml,         \* normalize_record: argument html_values
    nout,          \* normalize_record: outcome
    npc,           \* normalize_record: "input" before the call, "done" after it
    vrecords,      \* validate_records: argument records
    vrequired,     \* validate_records: argument required_fields
    vissues,       \* validate_records: the list it returned
    vpc,           \* validate_records: "input" before the call, "done" after it
    selector,      \* _split_selector: argument selector, a sequence of tokens
    sout,          \* _split_selector: the pair it returned
    spc,           \* _split_selector: "input" before the call, "done" after it
    ldata,         \* load_sources: the parsed YAML list under "sources"
    lout,          \* load_sources: outcome, the list returned or the ConfigError raised
    lpc,           \* load_sources: "input" before the call, "done" after it
    sources,       \* main: the list load_sources returned
    dry_run,       \* main: args.dry_run
    cidx,          \* main: 1-based position of the loop over sources
    cpc,           \* main: position in the body of the loop and after it
    main_api_values,   \* main: local api_values of the current iteration
    main_html_values,  \* main: local html_values of the current iteration
    records,       \* main: local records
    validation_issues, \* main: local validation_issues
    printed,       \* main: the lines printed to stdout, in order
    exported,      \* main: the list handed to the exporter, or NotExported
    api_results,   \* main: local api_results, an insertion-ordered dict as a list of entries
    html_results   \* main: local html_results

vars == <<pc, variant, cfg, url_template, context, max_retries, json_key_map, url,
          attempt, last_status, last_error, requests, responses, result, error,
          jdata, jpath, jout, jpc, nfields, ntypes, napi, nhtml, nout, npc,
          vrecords, vrequired, vissues, vpc, selector, sout, spc, ldata, lout, lpc,
          sources, dry_run, cidx, cpc, main_api_values, main_html_values, records,
          validation_issues, printed, exported, api_results, html_results>>

fetchVars == <<pc, variant, cfg, url_template, context, max_retries, json_key_map, url,
               attempt, last_status, last_error, requests, responses, result, error>>

jsonVars == <<jdata, jpath, jout, jpc>>

normVars == <<nfields, ntypes, napi, nhtml, nout, npc>>

valVars == <<vrecords, vrequired, vissues, vpc>>

selVars == <<selector, sout, spc>>

loadVars == <<ldata, lout, lpc>>

cliVars == <<sources, dry_run, cidx, cpc, main_api_values, main_html_values, records,
             validation_issues, printed, exported, api_results, html_results>>

\* what a fetch call leaves alone; main calls the fetchers, so its own
\* variables are not in this list
otherVars == <<jsonVars, normVars, valVars, selVars, loadVars>>

----------------------------------------------------------------------------
(* Bounds *)

MaxRetriesBound == 3   \* max_retries ranges over 0..MaxRetriesBound
MaxPathLen == 3        \* characters in a JSON path of the extraction specification

----------------------------------------------------------------------------
(* JSON-like values: nested maps, sequences, scalars.  None is JSON null. *)

JNull == [t |-> "null", m |-> <<>>, l |-> <<>>, n |-> 0]

JNum(i) == [t |-> "num", m |-> <<>>, l |-> <<>>, n |-> i]

JMap(f) == [t |-> "map", m |-> f, l |-> <<>>, n |-> 0]

JList(s) == [t |-> "list", m |-> <<>>, l |-> s, n |-> 0]

\* the float json.loads gives for a number literal beyond the double range (1e999)
JInf == [t |-> "inf", m |-> <<>>, l |-> <<>>, n |-> 0]

(* str.split("."): the separator splits at every occurrence; an empty      *)
(* string gives one empty part.                                            *)
RECURSIVE SplitFrom(_, _, _)
SplitFrom(s, i, cur) ==
    IF i > Len(s) THEN <<cur>>
    ELSE IF s[i] = "." THEN <<cur>> \o SplitFrom(s, i + 1, <<>>)
    ELSE SplitFrom(s, i + 1, Append(cur, s[i]))

Split(s) == SplitFrom(s, 1, <<>>)

(* Characters for which str.isdigit() is true: the decimal digits and the  *)
(* other characters of Unicode numeric type Digit, such as SUPERSCRIPT TWO *)
(* (U+00B2), written "sup2" here.                                          *)
DecimalChars == {"0", "1", "2", "3", "4", "5", "6", "7", "8", "9"}

DigitChars == DecimalChars \cup {"sup2"}

isdigit(part) == Len(part) > 0 /\ \A i \in 1..Len(part) : part[i] \in DigitChars

DigitValue(c) ==
    CASE c = "0" -> 0 [] c = "1" -> 1 [] c = "2" -> 2 [] c = "3" -> 3 [] c = "4" -> 4
      [] c = "5" -> 5 [] c = "6" -> 6 [] c = "7" -> 7 [] c = "8" -> 8 [] c = "9" -> 9

(* int(part) raises ValueError unless the literal consists of decimal digits. *)
IntRaises(part) == Len(part) = 0 \/ \E i \in 1..Len(part) : part[i] \notin DecimalChars

RECURSIVE IntOf(_)
IntOf(part) ==
    IF Len(part) = 0 THEN 0
    ELSE 10 * IntOf(SubSeq(part, 1, Len(part) - 1)) + DigitValue(part[Len(part)])

Returned(v) == [raised |-> "", val |-> v]

Raised(exc) == [raised |-> exc, val |-> JNull]

RECURSIVE Walk(_, _, _)
Walk(current, parts, i) ==
    IF i > Len(parts) THEN Returned(current)
    ELSE LET part == parts[i] IN
        IF current.t = "map" THEN
            LET nxt == IF part \in DOMAIN current.m THEN current.m[part] ELSE JNull
            IN  IF nxt = JNull THEN Returned(JNull) ELSE Walk(nxt, parts, i + 1)
        ELSE IF current.t = "list" /\ isdigit(part) THEN
            IF IntRaises(part) THEN Raised("ValueError")
            ELSE LET idx == IntOf(part) IN
                IF idx < 0 \/ idx >= Len(current.l) THEN Returned(JNull)
                ELSE LET nxt == current.l[idx + 1]
                     IN  IF nxt = JNull THEN Returned(JNull) ELSE Walk(nxt, parts, i + 1)
        ELSE Returned(JNull)

extract_json_value(data, path) == Walk(data, Split(path), 1)

----------------------------------------------------------------------------
(* Inputs of the extraction specification *)

PathChars == {"a", "1", "sup2", "."}

Paths == UNION {[1..n -> PathChars] : n \in 0..MaxPathLen}

JKeys == {<<"a">>, <<"1">>}

JLeaves == {JNull, JNum(7)}

JMapsOver(S) == UNION {[D -> S] : D \in SUBSET JKeys}

JListsOver(S) == {<<>>} \cup {<<x>> : x \in S} \cup {<<x, y>> : x \in S, y \in {JNum(8)}}

JInner == JLeaves \cup {JList(s) : s \in JListsOver(JLeaves)}
                  \cup {JMap(f) : f \in {<<>>, [k \in {<<"a">>} |-> JNum(7)], [k \in {<<"1">>} |-> JNum(8)]}}

JTrees == JLeaves \cup {JMap(f) : f \in JMapsOver(JInner)} \cup {JList(s) : s \in JListsOver(JInner)}

JInit ==
    /\ jdata \in JTrees
    /\ jpath \in Paths
    /\ jout = Returned(JNull)
    /\ jpc = "input"

ExtractJsonValue ==
    /\ UNCHANGED <<fetchVars, normVars, valVars, selVars, loadVars, cliVars>>
    /\ jpc = "input"
    /\ jout' = extract_json_value(jdata, jpath)
    /\ jpc' = "done"
    /\ UNCHANGED <<jdata, jpath>>

----------------------------------------------------------------------------
(* Python values of the extracted-value maps.  n of a float is the value   *)
(* in hundredths; inf marks the float infinity.                            *)

PyNone == [ty |-> "None", n |-> 0, s |-> <<>>, inf |-> FALSE]

PyStr(s) == [ty |-> "str", n |-> 0, s |-> s, inf |-> FALSE]

PyInt(n) == [ty |-> "int", n |-> n, s |-> <<>>, inf |-> FALSE]

PyFloat(h) == [ty |-> "float", n |-> h, s |-> <<>>, inf |-> FALSE]

PyInf == [ty |-> "float", n |-> 0, s |-> <<>>, inf |-> TRUE]

PyList == [ty |-> "list", n |-> 0, s |-> <<>>, inf |-> FALSE]

Conv(v) == [raised |-> "", val |-> v]

ConvRaised(exc) == [raised |-> exc, val |-> PyNone]

DotAt(s) == {i \in 1..Len(s) : s[i] = "."}

(* float(s) of a string of digits and dots: one dot at most and a digit at *)
(* least, else ValueError.                                                 *)
FloatLiteral(s) ==
    /\ \A i \in 1..Len(s) : s[i] \in DecimalChars \cup {"."}
    /\ Cardinality(DotAt(s)) <= 1
    /\ \E i \in 1..Len(s) : s[i] \in DecimalChars

Hundredths(s) ==
    IF DotAt(s) = {} THEN 100 * IntOf(s)
    ELSE LET d == CHOOSE i \in DotAt(s) : TRUE
             whole == SubSeq(s, 1, d - 1)
             frac == SubSeq(s, d + 1, Len(s))
             two == SubSeq(frac \o <<"0", "0">>, 1, 2)
         IN  100 * IntOf(whole) + IntOf(two)

(* float(value) *)
ToFloat(value) ==
    CASE value.ty = "str" ->
             IF FloatLiteral(value.s) THEN Conv(PyFloat(Hundredths(value.s)))
             ELSE ConvRaised("ValueError")
      [] value.ty = "int" -> Conv(PyFloat(100 * value.n))
      [] value.ty = "float" -> Conv(value)
      [] OTHER -> ConvRaised("TypeError")

(* int(value) *)
ToInt(value) ==
    CASE value.ty = "str" ->
             IF IntRaises(value.s) THEN ConvRaised("ValueError") ELSE Conv(PyInt(IntOf(value.s)))
      [] value.ty = "int" -> Conv(value)
      [] value.ty = "float" ->
             IF value.inf THEN ConvRaised("OverflowError") ELSE Conv(PyInt(value.n \div 100))
      [] OTHER -> ConvRaised("TypeError")

NoType == ""

(* _convert_value: TypeError and ValueError are caught, nothing else is. *)
_convert_value(value, target_type) ==
    IF value = PyNone \/ target_type = NoType THEN Conv(value)
    ELSE LET out == IF target_type = "float" THEN ToFloat(value)
                    ELSE IF target_type = "int" THEN ToInt(value)
                    ELSE Conv(value)
         IN  IF out.raised \in {"TypeError", "ValueError"} THEN Conv(PyNone) ELSE out

(* ".".join(parts) *)
RECURSIVE Join(_)
Join(parts) ==
    IF Len(parts) = 0 THEN <<>>
    ELSE IF Len(parts) = 1 THEN parts[1]
    ELSE parts[1] \o <<".">> \o Join(Tail(parts))

(* dict.get(key) of an extracted-value map *)
Get(m, key) == IF key \in DOMAIN m THEN m[key] ELSE PyNone

(* The origin named by parts[0] *)
IsOrigin(source_type, name) == source_type = <<name>>

(* Variant: the key is the second part only. *)
FieldValueSecondPartOnly(mapping_expr, api_values, html_values) ==
    LET parts == Split(mapping_expr) IN
    IF Len(parts) < 2 THEN PyNone
    ELSE LET source_type == parts[1]
             field_key == parts[2]
         IN  IF IsOrigin(source_type, "api") THEN
                 IF api_values.given THEN Get(api_values.m, field_key) ELSE PyNone
             ELSE IF IsOrigin(source_type, "html") THEN
                 IF html_values.given THEN Get(html_values.m, field_key) ELSE PyNone
             ELSE PyNone

(* normalize_record lines 30-50: the local value of one field. *)
FieldValue(mapping_expr, api_values, html_values) ==
    LET parts == Split(mapping_expr) IN
    IF Len(parts) < 2 THEN PyNone
    ELSE LET source_type == parts[1]
             field_key == Join(SubSeq(parts, 2, Len(parts)))
         IN  IF IsOrigin(source_type, "api") THEN
                 IF api_values.given THEN Get(api_values.m, field_key) ELSE PyNone
             ELSE IF IsOrigin(source_type, "html") THEN
                 IF html_values.given THEN Get(html_values.m, field_key) ELSE PyNone
             ELSE PyNone

(* field_types.get(unified_key), field_types None read as empty *)
TargetType(field_types, unified_key) ==
    IF unified_key \in DOMAIN field_types THEN field_types[unified_key] ELSE NoType

(* normalize_record: the fields are filled in declaration order; the first *)
(* conversion that raises ends the call.                                   *)
normalize_record(unified_fields, field_types, api_values, html_values) ==
    LET conv(i) == _convert_value(
                       FieldValue(unified_fields[i].expr, api_values, html_values),
                       TargetType(field_types, unified_fields[i].key))
        raising == {i \in 1..Len(unified_fields) : conv(i).raised # ""}
    IN  IF raising # {} THEN
            [raised |-> conv(CHOOSE i \in raising : \A j \in raising : i <= j).raised,
             val |-> <<>>]
        ELSE [raised |-> "",
              val |-> [k \in {unified_fields[i].key : i \in 1..Len(unified_fields)} |->
                          conv(CHOOSE i \in 1..Len(unified_fields) : unified_fields[i].key = k).val]]

----------------------------------------------------------------------------
(* Inputs of the normalisation specification *)

MappingExprs ==
    { <<"api", ".", "k">>, <<"html", ".", "k">>, <<"api", ".", "k", ".", "j">>,
      <<"k">>, <<"x", ".", "k">> }

UnifiedFields ==
    {<<[key |-> "id", expr |-> e]>> : e \in MappingExprs} \cup
    {<<[key |-> "id", expr |-> e], [key |-> "title", expr |-> f]>> :
        e \in MappingExprs, f \in MappingExprs}

FieldTypes == {<<>>} \cup {[k \in {"id"} |-> ty] : ty \in {"float", "int"}}

ApiRaw ==
    { PyNone, PyStr(<<"9", ".", "9", "9">>), PyStr(<<"5">>), PyStr(<<"a", "b", "c">>),
      PyStr(<<>>), PyInt(5), PyFloat(999), PyInf, PyList }

HtmlRaw == {PyNone, PyStr(<<"5">>), PyStr(<<"a", "b", "c">>)}

NoValues == [given |-> FALSE, m |-> <<>>]

ValueMaps(raw, nested) ==
    {NoValues} \cup
    {[given |-> TRUE, m |-> f] :
        f \in {<<>>} \cup {[k \in {<<"k">>} |-> v] : v \in raw}
                     \cup {[k \in {<<"k">>, <<"k", ".", "j">>} |->
                               IF k = <<"k">> THEN v ELSE w] : v \in raw, w \in nested}}

NormIdle ==
    /\ nfields = <<>>
    /\ ntypes = <<>>
    /\ napi = NoValues
    /\ nhtml = NoValues
    /\ nout = [raised |-> "", val |-> <<>>]
    /\ npc = "idle"

NormInit ==
    /\ nfields \in UnifiedFields
    /\ ntypes \in FieldTypes
    /\ napi \in ValueMaps(ApiRaw, {PyStr(<<"5">>)})
    /\ nhtml \in ValueMaps(HtmlRaw, {})
    /\ nout = [raised |-> "", val |-> <<>>]
    /\ npc = "input"

NormalizeRecord ==
    /\ UNCHANGED <<fetchVars, jsonVars, valVars, selVars, loadVars, cliVars>>
    /\ npc = "input"
    /\ nout' = normalize_record(nfields, ntypes, napi, nhtml)
    /\ npc' = "done"
    /\ UNCHANGED <<nfields, ntypes, napi, nhtml>>

----------------------------------------------------------------------------
(* URL templating: url.format with the context as keyword arguments *)

Lit(s) == [ph |-> FALSE, s |-> s]

Ph(name) == [ph |-> TRUE, s |-> name]

(* The template as the string it is, placeholders literal. *)
RECURSIVE TemplateText(_)
TemplateText(t) ==
    IF Len(t) = 0 THEN ""
    ELSE (IF Head(t).ph THEN "{" \o Head(t).s \o "}" ELSE Head(t).s) \o TemplateText(Tail(t))

(* Variant: a replacement field is replaced by its name. *)
RECURSIVE FormatKeepsName(_, _)
FormatKeepsName(t, m) ==
    IF Len(t) = 0 THEN [key_error |-> "", text |-> ""]
    ELSE IF Head(t).ph /\ Head(t).s \notin DOMAIN m THEN [key_error |-> Head(t).s, text |-> ""]
    ELSE LET rest == FormatKeepsName(Tail(t), m)
         IN  IF rest.key_error # "" THEN rest
             ELSE [key_error |-> "", text |-> Head(t).s \o rest.text]

(* str.format with keywords m: replacement fields are resolved left to right; the     *)
(* first name without an entry raises KeyError(name).                      *)
RECURSIVE Format(_, _)
Format(t, m) ==
    IF Len(t) = 0 THEN [key_error |-> "", text |-> ""]
    ELSE IF Head(t).ph /\ Head(t).s \notin DOMAIN m THEN [key_error |-> Head(t).s, text |-> ""]
    ELSE LET rest == Format(Tail(t), m)
             piece == IF Head(t).ph THEN m[Head(t).s] ELSE Head(t).s
         IN  IF rest.key_error # "" THEN rest ELSE [key_error |-> "", text |-> piece \o rest.text]

(* Variant: "if context is not None:". *)
TruthyWhenGiven(c) == c.given

(* "if context:" is false for None and for an empty dict. *)
Truthy(c) == c.given /\ DOMAIN c.m # {}

(* Variant: the enabled flag is not looked at. *)
NotEnabledOnlyAbsent(c) == c = "absent"

(* "api_cfg is None or not api_cfg.enabled" / "html_cfg is None or not html_cfg.enabled" *)
NotEnabled(c) == c = "absent" \/ c = "disabled"

----------------------------------------------------------------------------
(* HTTP outcomes *)

NoStatus == 0

NoError == 0

(* Variant: 500 itself is not taken for a server error. *)
IsServerErrorAbove500(status) == 500 < status /\ status < 600

(* "500 <= last_status < 600" *)
IsServerError(status) == 500 <= status /\ status < 600

(* Variant: raise_for_status raises for 5xx only. *)
RaiseForStatusOnly5xx(status) == 500 <= status /\ status < 600

(* requests.Response.raise_for_status raises HTTPError for 4xx and 5xx. *)
RaiseForStatusRaises(status) == 400 <= status /\ status < 600

(* "attempt >= self.max_retries" *)
BudgetSpent(a, n) == a >= n

(* Variant: the loop runs one iteration more. *)
InRangeInclusive(a, n) == 1 <= a /\ a <= n + 1

(* range(1, max_retries + 1) still has the value a *)
InRange(a, n) == 1 <= a /\ a < n + 1

NoErrorRec == [type |-> "", message |-> "", url |-> "", status_code |-> NoStatus,
               cause |-> "", cause_at |-> NoError, key |-> ""]

NoResult == [kind |-> "", values |-> <<>>, text |-> ""]

ReturnNone == [kind |-> "None", values |-> <<>>, text |-> ""]

ReturnValues(v) == [kind |-> "values", values |-> v, text |-> ""]

Exc == [kind |-> "exc", status |-> NoStatus, body |-> ""]

Resp(status, body) == [kind |-> "resp", status |-> status, body |-> body]

(* Variant: a body that is not JSON is parsed all the same. *)
JsonNeverRaises(body) == FALSE

(* response.json(): the parsed payload; ValueError when the body is not JSON. *)
JsonRaises(body) == body \notin {"json_list", "json_map"}

Payload(body) ==
    IF body = "json_list" THEN JMap([k \in {<<"a">>} |-> JList(<<JNum(7), JNum(8), JInf>>)])
    ELSE JMap([k \in {<<"a">>} |-> JMap([j \in {<<"1">>} |-> JNum(10)])])

----------------------------------------------------------------------------
(* Inputs of the fetch specification *)

UrlTemplates ==
    { <<Lit("https://x/p")>>,
      <<Lit("https://x/"), Ph("slug")>>,
      <<Lit("https://x/"), Ph("slug"), Lit("/"), Ph("id")>> }

NoContext == [given |-> FALSE, m |-> <<>>]

Contexts ==
    {NoContext} \cup
    {[given |-> TRUE, m |-> f] : f \in UNION {[D -> {"item"}] : D \in SUBSET {"slug", "id"}}}

NoKeyMap == <<>>

KeyMaps ==
    { NoKeyMap,
      [k \in {"id", "title"} |-> IF k = "id" THEN <<"a", ".", "1">> ELSE <<"b">>] }

StatusCodes == {200, 301, 404, 500, 503}

ApiBodies == {"not json", "json_list", "json_map"}

HtmlBodies == {"<html></html>"}

(* The body of a response is read only when raise_for_status lets it pass. *)
Outcomes(bodies) ==
    {Exc} \cup {Resp(st, b) : st \in {c \in StatusCodes : ~RaiseForStatusRaises(c)}, b \in bodies}
          \cup {Resp(st, "") : st \in {c \in StatusCodes : RaiseForStatusRaises(c)}}

FetchIdle ==
    /\ pc = "idle"
    /\ variant = ""
    /\ cfg = "absent"
    /\ url_template = <<>>
    /\ context = NoContext
    /\ max_retries = 0
    /\ json_key_map = NoKeyMap
    /\ url = ""
    /\ attempt = 0
    /\ last_status = NoStatus
    /\ last_error = NoError
    /\ requests = <<>>
    /\ responses = <<>>
    /\ result = NoResult
    /\ error = NoErrorRec

JsonIdle ==
    /\ jdata = JNull
    /\ jpath = <<>>
    /\ jout = Returned(JNull)
    /\ jpc = "idle"

----------------------------------------------------------------------------
(* ApiClient.fetch *)

ApiError(message, u, status, cause, at, key) ==
    [type |-> "ApiError", message |-> message, url |-> u, status_code |-> status,
     cause |-> cause, cause_at |-> at, key |-> key]

(* Lines 43-59: the enabled test, URL templating, the loop's initial state. *)
ApiFetch(c, t, ctx, n, km) ==
    /\ UNCHANGED otherVars
    /\ pc = "idle"
    /\ variant' = "api"
    /\ cfg' = c
    /\ url_template' = t
    /\ context' = ctx
    /\ max_retries' = n
    /\ json_key_map' = km
    /\ UNCHANGED <<last_status, last_error, requests, responses>>
    /\ IF NotEnabled(c) THEN
           /\ pc' = "returned"
           /\ result' = ReturnNone
           /\ UNCHANGED <<url, attempt, error>>
       ELSE IF Truthy(ctx) /\ Format(t, ctx.m).key_error # "" THEN
           /\ pc' = "raised"
           /\ url' = TemplateText(t)
           /\ error' = ApiError("Missing context key", TemplateText(t), NoStatus,
                                "KeyError", NoError, Format(t, ctx.m).key_error)
           /\ UNCHANGED <<attempt, result>>
       ELSE
           /\ pc' = "attempting"
           /\ url' = IF Truthy(ctx) THEN Format(t, ctx.m).text ELSE TemplateText(t)
           /\ attempt' = 1
           /\ UNCHANGED <<result, error>>

(* Lines 87-89: the extracted values; an exception of extract_json_value   *)
(* is not caught by fetch.                                                 *)
ApiValues(payload, km) == [k \in DOMAIN km |-> extract_json_value(payload, km[k])]

(* Lines 61-89: one iteration of the retry loop. *)
ApiRequest(o) ==
    /\ UNCHANGED otherVars
    /\ pc = "attempting"
    /\ variant = "api"
    /\ InRange(attempt, max_retries)
    /\ requests' = Append(requests, url)
    /\ responses' = Append(responses, o)
    /\ UNCHANGED <<variant, cfg, url_template, context, max_retries, json_key_map, url>>
    /\ IF o.kind = "exc" THEN
           /\ last_error' = Len(requests) + 1
           /\ UNCHANGED <<last_status, result>>
           /\ IF BudgetSpent(attempt, max_retries) THEN
                  /\ pc' = "raised"
                  /\ error' = ApiError("API request failed", url, NoStatus,
                                       "RequestException", Len(requests) + 1, "")
                  /\ UNCHANGED attempt
              ELSE
                  /\ attempt' = attempt + 1
                  /\ UNCHANGED <<pc, error>>
       ELSE
           /\ last_status' = o.status
           /\ UNCHANGED last_error
           /\ IF IsServerError(o.status) THEN
                  /\ UNCHANGED result
                  /\ IF BudgetSpent(attempt, max_retries) THEN
                         /\ pc' = "raised"
                         /\ error' = ApiError("API request failed with server error", url,
                                              o.status, "", NoError, "")
                         /\ UNCHANGED attempt
                     ELSE
                         /\ attempt' = attempt + 1
                         /\ UNCHANGED <<pc, error>>
              ELSE IF RaiseForStatusRaises(o.status) THEN
                  /\ pc' = "raised"
                  /\ error' = ApiError("API request failed", url, o.status, "HTTPError", NoError, "")
                  /\ UNCHANGED <<attempt, result>>
              ELSE IF JsonRaises(o.body) THEN
                  /\ pc' = "raised"
                  /\ error' = ApiError("API response was not valid JSON", url, o.status,
                                       "ValueError", NoError, "")
                  /\ UNCHANGED <<attempt, result>>
              ELSE LET api_values == ApiValues(Payload(o.body), json_key_map) IN
                  IF \E k \in DOMAIN api_values : api_values[k].raised # "" THEN
                      /\ pc' = "raised"
                      /\ error' = [NoErrorRec EXCEPT !.type = "ValueError"]
                      /\ UNCHANGED <<attempt, result>>
                  ELSE
                      /\ pc' = "returned"
                      /\ result' = ReturnValues([k \in DOMAIN api_values |-> api_values[k].val])
                      /\ UNCHANGED <<attempt, error>>

(* Lines 91-94: the loop ran out of attempts without returning or raising. *)
ApiLoopExit ==
    /\ UNCHANGED otherVars
    /\ pc = "attempting"
    /\ variant = "api"
    /\ ~InRange(attempt, max_retries)
    /\ pc' = "raised"
    /\ error' = ApiError("API request failed", url, last_status,
                         IF last_error # NoError THEN "RequestException" ELSE "", last_error, "")
    /\ UNCHANGED <<variant, cfg, url_template, context, max_retries, json_key_map, url,
                   attempt, last_status, last_error, requests, responses, result>>

----------------------------------------------------------------------------
(* HtmlScraper.fetch_and_parse and fetch_html *)

(* ScrapeError has a message only; url, status_code and key are what the   *)
(* message text includes.                                                  *)
ScrapeError(message, u, status, cause, at, key) ==
    [type |-> "ScrapeError", message |-> message, url |-> u, status_code |-> status,
     cause |-> cause, cause_at |-> at, key |-> key]

(* fetch_and_parse lines 70-81 up to the call of fetch_html, and           *)
(* fetch_html lines 22-24.                                                 *)
HtmlFetchAndParse(c, t, ctx, n) ==
    /\ UNCHANGED otherVars
    /\ pc = "idle"
    /\ variant' = "html"
    /\ cfg' = c
    /\ url_template' = t
    /\ context' = ctx
    /\ max_retries' = n
    /\ UNCHANGED <<json_key_map, last_status, last_error, requests, responses>>
    /\ IF NotEnabled(c) THEN
           /\ pc' = "returned"
           /\ result' = ReturnNone
           /\ UNCHANGED <<url, attempt, error>>
       ELSE IF Truthy(ctx) /\ Format(t, ctx.m).key_error # "" THEN
           /\ pc' = "raised"
           /\ url' = TemplateText(t)
           /\ error' = ScrapeError("Missing context key", "", NoStatus,
                                   "KeyError", NoError, Format(t, ctx.m).key_error)
           /\ UNCHANGED <<attempt, result>>
       ELSE
           /\ pc' = "attempting"
           /\ url' = IF Truthy(ctx) THEN Format(t, ctx.m).text ELSE TemplateText(t)
           /\ attempt' = 1
           /\ UNCHANGED <<result, error>>

(* fetch_html lines 26-50: one iteration of the retry loop.  A response    *)
(* that raise_for_status lets pass only has its encoding computed into the *)
(* local enc; the iteration ends there and the loop goes on.               *)
HtmlRequest(o) ==
    /\ UNCHANGED otherVars
    /\ pc = "attempting"
    /\ variant = "html"
    /\ InRange(attempt, max_retries)
    /\ requests' = Append(requests, url)
    /\ responses' = Append(responses, o)
    /\ UNCHANGED <<variant, cfg, url_template, context, max_retries, json_key_map, url, result>>
    /\ IF o.kind = "exc" THEN
           /\ last_error' = Len(requests) + 1
           /\ UNCHANGED last_status
           /\ IF BudgetSpent(attempt, max_retries) THEN
                  /\ pc' = "raised"
                  /\ error' = ScrapeError("Failed to fetch HTML", url, NoStatus,
                                          "RequestException", Len(requests) + 1, "")
                  /\ UNCHANGED attempt
              ELSE
                  /\ attempt' = attempt + 1
                  /\ UNCHANGED <<pc, error>>
       ELSE
           /\ last_status' = o.status
           /\ UNCHANGED last_error
           /\ IF IsServerError(o.status) THEN
                  IF BudgetSpent(attempt, max_retries) THEN
                      /\ pc' = "raised"
                      /\ error' = ScrapeError("Server error while fetching", url, o.status,
                                              "", NoError, "")
                      /\ UNCHANGED attempt
                  ELSE
                      /\ attempt' = attempt + 1
                      /\ UNCHANGED <<pc, error>>
              ELSE IF RaiseForStatusRaises(o.status) THEN
                  /\ pc' = "raised"
                  /\ error' = ScrapeError("HTTP error while fetching", url, o.status,
                                          "HTTPError", NoError, "")
                  /\ UNCHANGED attempt
              ELSE
                  /\ attempt' = attempt + 1
                  /\ UNCHANGED <<pc, error>>

(* fetch_html line 52: the statement after the loop. *)
HtmlLoopExit ==
    /\ UNCHANGED otherVars
    /\ pc = "attempting"
    /\ variant = "html"
    /\ ~InRange(attempt, max_retries)
    /\ pc' = "raised"
    /\ error' = ScrapeError("Failed to fetch HTML", url, last_status,
                            IF last_error # NoError THEN "RequestException" ELSE "", last_error, "")
    /\ UNCHANGED <<variant, cfg, url_template, context, max_retries, json_key_map, url,
                   attempt, last_status, last_error, requests, responses, result>>

----------------------------------------------------------------------------
(* validator.py: validate_records *)

MaxRecords == 2        \* records in the list handed to validate_records

ValidationIssue(index, field, message) ==
    [index |-> index, field |-> field, message |-> message]

(* The missing test of one required field, "not value".                    *)
IsMissingWhenFalsy(record, field) ==
    \/ field \notin DOMAIN record
    \/ record[field] \in {PyNone, PyStr(<<>>), PyInt(0)}

(* validate_records lines 18-19: value = record.get(field), then           *)
(* "value is None or value == ''".                                         *)
IsMissing(record, field) ==
    LET value == IF field \in DOMAIN record THEN record[field] ELSE PyNone
    IN  value = PyNone \/ value = PyStr(<<>>)

(* The inner loop of validate_records over required_fields, from the j-th  *)
(* field on; idx is the 0-based index enumerate() gives the record.        *)
RECURSIVE FieldLoop(_, _, _, _)
FieldLoop(record, idx, required_fields, j) ==
    IF j > Len(required_fields) THEN <<>>
    ELSE (IF IsMissing(record, required_fields[j])
          THEN <<ValidationIssue(idx, required_fields[j], "Missing required value")>>
          ELSE <<>>)
         \o FieldLoop(record, idx, required_fields, j + 1)

(* The outer loop of validate_records over enumerate(records). *)
RECURSIVE RecordLoop(_, _, _)
RecordLoop(recs, required_fields, i) ==
    IF i > Len(recs) THEN <<>>
    ELSE FieldLoop(recs[i], i - 1, required_fields, 1)
         \o RecordLoop(recs, required_fields, i + 1)

validate_records(recs, required_fields) == RecordLoop(recs, required_fields, 1)

(* Inputs: records over two field names whose values are None, the empty   *)
(* string, a non-empty string and the falsy number 0; required field lists *)
(* name each field once, as the keys of a mapping do.                      *)
RecordValues == {PyNone, PyStr(<<>>), PyStr(<<"a">>), PyInt(0)}

NormalizedRecords == UNION {[D -> RecordValues] : D \in SUBSET {"id", "name"}}

RecordLists == UNION {[1..n -> NormalizedRecords] : n \in 0..MaxRecords}

RequiredFieldLists == {<<>>, <<"id">>, <<"name">>, <<"id", "name">>, <<"name", "id">>}

ValIdle ==
    /\ vrecords = <<>>
    /\ vrequired = <<>>
    /\ vissues = <<>>
    /\ vpc = "idle"

ValInit ==
    /\ vrecords \in RecordLists
    /\ vrequired \in RequiredFieldLists
    /\ vissues = <<>>
    /\ vpc = "input"

ValidateRecords ==
    /\ UNCHANGED <<fetchVars, jsonVars, normVars, selVars, loadVars, cliVars>>
    /\ vpc = "input"
    /\ vissues' = validate_records(vrecords, vrequired)
    /\ vpc' = "done"
    /\ UNCHANGED <<vrecords, vrequired>>

----------------------------------------------------------------------------
(* scraper.py: _split_selector *)

MaxSelectorLen == 7    \* tokens in a selector string

(* A selector string is a sequence of tokens: the directive opener, the    *)
(* two parentheses, and "a" for a run of any other characters.             *)
AttrOpen == "::attr("

SelectorTokens == {"a", "(", ")", AttrOpen}

Selectors == UNION {[1..n -> SelectorTokens] : n \in 0..MaxSelectorLen}

NoAttr == [given |-> FALSE, name |-> <<>>]

Attr(name) == [given |-> TRUE, name |-> name]

SplitResult(base, attr) == [base |-> base, attr |-> attr]

(* selector.partition("::attr("): the text before and after the first      *)
(* occurrence of the separator.                                            *)
Partition(s) ==
    LET i == CHOOSE k \in 1..Len(s) : s[k] = AttrOpen /\ \A j \in 1..(k - 1) : s[j] # AttrOpen
    IN  [before |-> SubSeq(s, 1, i - 1), remainder |-> SubSeq(s, i + 1, Len(s))]

(* Line 56: "::attr(" in selector and selector.endswith(")"). *)
HasDirective(s) ==
    /\ \E k \in 1..Len(s) : s[k] = AttrOpen
    /\ Len(s) > 0
    /\ s[Len(s)] = ")"

_split_selector(s) ==
    IF HasDirective(s) THEN
        LET p == Partition(s)
            attr_name == SubSeq(p.remainder, 1, Len(p.remainder) - 1)
        IN  SplitResult(p.before, Attr(attr_name))
    ELSE SplitResult(s, NoAttr)

SelInit ==
    /\ selector \in Selectors
    /\ sout = SplitResult(<<>>, NoAttr)
    /\ spc = "input"

SplitSelector ==
    /\ UNCHANGED <<fetchVars, jsonVars, normVars, valVars, loadVars, cliVars>>
    /\ spc = "input"
    /\ sout' = _split_selector(selector)
    /\ spc' = "done"
    /\ UNCHANGED selector

----------------------------------------------------------------------------
(* config.py: load_sources *)

MaxEntries == 2        \* entries in the YAML list of sources

(* An "api" or "html" section of a source entry, and the ApiConfig or      *)
(* HtmlConfig built from it: whether the key is there at all, the truth    *)
(* value of "enabled" (False when left out), and whether a URL is given.   *)
Section(enabled, has_url) == [present |-> TRUE, enabled |-> enabled, has_url |-> has_url]

NoSection == [present |-> FALSE, enabled |-> FALSE, has_url |-> FALSE]

Sections ==
    {NoSection, Section(FALSE, FALSE), Section(TRUE, FALSE), Section(TRUE, TRUE)}

(* "mapping": left out, given without unified_fields, or well formed. *)
Mappings == {"absent", "no unified_fields", "ok"}

SourceEntries == [id : {"", "s"}, mapping : Mappings, api : Sections, html : Sections]

SourceData == UNION {[1..n -> SourceEntries] : n \in 0..MaxEntries}

SourceConfig(id, api, html, mapping) ==
    [id |-> id, api |-> api, html |-> html, mapping |-> mapping]

Loaded(srcs) == [raised |-> "", sources |-> srcs]

ConfigError(message) == [raised |-> message, sources |-> <<>>]

(* _build_api line 85 and _build_html line 120: "enabled and not url". *)
SectionRaises(section) == section.present /\ section.enabled /\ ~section.has_url

(* The test of line 160 with "or" in the place of "and". *)
NothingDefinedIfEitherAbsent(api, html) == ~api.present \/ ~html.present

(* Line 160: api is None and html is None. *)
NothingDefined(api, html) == ~api.present /\ ~html.present

(* The body of the loop of load_sources for one item: the ConfigError it   *)
(* raises, or "" when the item is appended.                                *)
EntryError(item) ==
    IF item.id = "" THEN "missing required 'id'"
    ELSE IF item.mapping = "absent" THEN "missing required 'mapping'"
    ELSE IF item.mapping # "ok" THEN "mapping.unified_fields is required"
    ELSE IF SectionRaises(item.api) THEN "api.base_url is required when api is enabled"
    ELSE IF SectionRaises(item.html) THEN "html.url is required when html is enabled"
    ELSE IF NothingDefined(item.api, item.html) THEN "must define at least one of 'api' or 'html'"
    ELSE ""

(* The loop of load_sources from the i-th item on, with the sources built  *)
(* so far.                                                                 *)
RECURSIVE LoadLoop(_, _, _)
LoadLoop(data, i, srcs) ==
    IF i > Len(data) THEN Loaded(srcs)
    ELSE IF EntryError(data[i]) # "" THEN ConfigError(EntryError(data[i]))
    ELSE LoadLoop(data, i + 1,
                  Append(srcs, SourceConfig(data[i].id, data[i].api, data[i].html,
                                            data[i].mapping)))

load_sources(data) == LoadLoop(data, 1, <<>>)

LoadInit ==
    /\ ldata \in SourceData
    /\ lout = Loaded(<<>>)
    /\ lpc = "input"

LoadSources ==
    /\ UNCHANGED <<fetchVars, jsonVars, normVars, valVars, selVars, cliVars>>
    /\ lpc = "input"
    /\ lout' = load_sources(ldata)
    /\ lpc' = "done"
    /\ UNCHANGED ldata

----------------------------------------------------------------------------
(* Everything outside the call under study is at rest. *)

SelIdle ==
    /\ selector = <<>>
    /\ sout = SplitResult(<<>>, NoAttr)
    /\ spc = "idle"

LoadIdle ==
    /\ ldata = <<>>
    /\ lout = Loaded(<<>>)
    /\ lpc = "idle"

NotExported == [done |-> FALSE, rows |-> <<>>]

CliIdle ==
    /\ sources = <<>>
    /\ dry_run = FALSE
    /\ cidx = 0
    /\ cpc = "idle"
    /\ main_api_values = NoValues
    /\ main_html_values = NoValues
    /\ records = <<>>
    /\ validation_issues = <<>>
    /\ printed = <<>>
    /\ exported = NotExported
    /\ api_results = <<>>
    /\ html_results = <<>>

----------------------------------------------------------------------------
(* The fetch specification: one call of one fetcher. *)

Configs == {"absent", "disabled", "enabled"}

RetryBudgets == 0..MaxRetriesBound

Init == FetchIdle /\ JsonIdle /\ NormIdle /\ ValIdle /\ SelIdle /\ LoadIdle /\ CliIdle

Next ==
    /\ UNCHANGED cliVars
    /\ \/ \E c \in Configs, t \in UrlTemplates, ctx \in Contexts, n \in RetryBudgets, km \in KeyMaps :
              ApiFetch(c, t, ctx, n, km)
       \/ \E o \in Outcomes(ApiBodies) : ApiRequest(o)
       \/ ApiLoopExit
       \/ \E c \in Configs, t \in UrlTemplates, ctx \in Contexts, n \in RetryBudgets :
              HtmlFetchAndParse(c, t, ctx, n)
       \/ \E o \in Outcomes(HtmlBodies) : HtmlRequest(o)
       \/ HtmlLoopExit

Spec == Init /\ [][Next]_vars

(* A call that has started runs to its end: every request returns or       *)
(* raises within its timeout and the loop then takes its next step.        *)
FairSpec == Spec /\ WF_vars(Next)

----------------------------------------------------------------------------
(* The extraction specification: extract_json_value on bounded inputs. *)

ExtractInit == FetchIdle /\ JInit /\ NormIdle /\ ValIdle /\ SelIdle /\ LoadIdle /\ CliIdle

ExtractNext == ExtractJsonValue

ExtractSpec == ExtractInit /\ [][ExtractNext]_vars

----------------------------------------------------------------------------
(* The normalisation specification: normalize_record on bounded inputs. *)

NormalizeInit == FetchIdle /\ JsonIdle /\ NormInit /\ ValIdle /\ SelIdle /\ LoadIdle /\ CliIdle

NormalizeNext == NormalizeRecord

NormalizeSpec == NormalizeInit /\ [][NormalizeNext]_vars

----------------------------------------------------------------------------
(* The validation specification: validate_records on bounded inputs. *)

ValidateInit == FetchIdle /\ JsonIdle /\ NormIdle /\ ValInit /\ SelIdle /\ LoadIdle /\ CliIdle

ValidateNext == ValidateRecords

ValidateSpec == ValidateInit /\ [][ValidateNext]_vars

----------------------------------------------------------------------------
(* The selector specification: _split_selector on bounded inputs. *)

SelectorInit == FetchIdle /\ JsonIdle /\ NormIdle /\ ValIdle /\ SelInit /\ LoadIdle /\ CliIdle

SelectorNext == SplitSelector

SelectorSpec == SelectorInit /\ [][SelectorNext]_vars

----------------------------------------------------------------------------
(* The loading specification: load_sources on bounded lists of entries. *)

LoadInitial == FetchIdle /\ JsonIdle /\ NormIdle /\ ValIdle /\ SelIdle /\ LoadInit /\ CliIdle

LoadNext == LoadSources

LoadSpec == LoadInitial /\ [][LoadNext]_vars

----------------------------------------------------------------------------
(* cli.py: main, from the list of sources that load_sources returned *)

MaxSources == 2        \* sources in the configuration

DefaultMaxRetries == 3 \* ApiClient() and HtmlScraper() as main constructs them

(* _build_context *)
_build_context(source) == [given |-> TRUE, m |-> [k \in {"external_id"} |-> source.id]]

(* The sources of a run.  Each has the shape of a SourceConfig with the    *)
(* fields the fetchers and the normaliser read.                            *)
ApiSpec(c, base_url, km) == [cfg |-> c, base_url |-> base_url, json_key_map |-> km]

HtmlSpec(c, u) == [cfg |-> c, url |-> u]

Mapping(unified_fields, field_types) ==
    [unified_fields |-> unified_fields, field_types |-> field_types]

IdTemplate == <<Lit("https://x/"), Ph("external_id")>>

IntId == [k \in {"id"} |-> "int"]

SourceKinds ==
    { \* API only, one field that every JSON payload holds
      [api |-> ApiSpec("enabled", IdTemplate, [k \in {"id"} |-> <<"a", ".", "1">>]),
       html |-> HtmlSpec("absent", <<>>),
       mapping |-> Mapping(<<[key |-> "id", expr |-> <<"api", ".", "id">>]>>, IntId)],
      \* API only, two fields: the id is beyond the double range in one
      \* payload and missing in the other, the title is missing in both
      [api |-> ApiSpec("enabled", IdTemplate,
                       [k \in {"id", "title"} |->
                           IF k = "id" THEN <<"a", ".", "2">> ELSE <<"b">>]),
       html |-> HtmlSpec("absent", <<>>),
       mapping |-> Mapping(<<[key |-> "id", expr |-> <<"api", ".", "id">>],
                             [key |-> "title", expr |-> <<"api", ".", "title">>]>>, IntId)],
      \* both sections given and disabled
      [api |-> ApiSpec("disabled", <<>>, NoKeyMap),
       html |-> HtmlSpec("disabled", <<>>),
       mapping |-> Mapping(<<[key |-> "title", expr |-> <<"html", ".", "title">>]>>, <<>>)],
      \* HTML only
      [api |-> ApiSpec("absent", <<>>, NoKeyMap),
       html |-> HtmlSpec("enabled", <<Lit("https://x/p")>>),
       mapping |-> Mapping(<<[key |-> "title", expr |-> <<"html", ".", "title">>]>>, <<>>)],
      \* API only, with a placeholder the context of main does not have
      [api |-> ApiSpec("enabled", <<Lit("https://x/"), Ph("slug")>>,
                       [k \in {"id"} |-> <<"a", ".", "1">>]),
       html |-> HtmlSpec("absent", <<>>),
       mapping |-> Mapping(<<[key |-> "id", expr |-> <<"api", ".", "id">>]>>, IntId)] }

SourceId(i) == "s" \o ToString(i)

SourceLists ==
    UNION {{[i \in 1..n |-> [id |-> SourceId(i), api |-> kinds[i].api, html |-> kinds[i].html,
                             mapping |-> kinds[i].mapping]] :
                kinds \in [1..n -> SourceKinds]} : n \in 1..MaxSources}

(* What the upstream answers during a run. *)
MainApiOutcomes ==
    {Exc, Resp(200, "json_list"), Resp(200, "json_map"), Resp(404, ""), Resp(500, "")}

MainHtmlOutcomes == {Exc, Resp(200, "<html></html>"), Resp(404, "")}

(* The value a fetcher returned, as the normaliser reads it: the same      *)
(* object, with each key as the one piece it is and each JSON value as     *)
(* the Python value it is.                                                 *)
AsPy(node) ==
    CASE node.t = "null" -> PyNone
      [] node.t = "num" -> PyInt(node.n)
      [] node.t = "inf" -> PyInf
      [] OTHER -> PyList

AsValueMap(returned) ==
    IF returned.kind = "None" THEN NoValues
    ELSE [given |-> TRUE,
          m |-> [key \in {<<k>> : k \in DOMAIN returned.values} |-> AsPy(returned.values[key[1]])]]

(* d[key] = value on a dict kept as the list of its entries in insertion   *)
(* order.                                                                  *)
DictSet(d, key, value) ==
    IF \E i \in 1..Len(d) : d[i].id = key
    THEN [i \in 1..Len(d) |-> IF d[i].id = key THEN [id |-> key, values |-> value] ELSE d[i]]
    ELSE Append(d, [id |-> key, values |-> value])

(* ', '.join(lines) *)
RECURSIVE JoinLines(_)
JoinLines(lines) ==
    IF lines = <<>> THEN ""
    ELSE IF Len(lines) = 1 THEN lines[1]
    ELSE lines[1] \o ", " \o JoinLines(Tail(lines))

(* Line 60 with only the first key of the mapping. *)
RequiredFieldsFirstOnly(unified_fields) == <<unified_fields[1].key>>

(* Line 60: list(source.mapping.unified_fields.keys()). *)
RequiredFields(unified_fields) == [i \in 1..Len(unified_fields) |-> unified_fields[i].key]

(* Lines 62-64: the lines added to validation_issues for one source. *)
IssueLines(source_id, issues) ==
    [i \in 1..Len(issues) |->
        source_id \o ":" \o issues[i].field \o "@" \o ToString(issues[i].index)]

(* The fetcher is left for the next call. *)
FetchReset ==
    /\ pc' = "idle"
    /\ variant' = ""
    /\ cfg' = "absent"
    /\ url_template' = <<>>
    /\ context' = NoContext
    /\ max_retries' = 0
    /\ json_key_map' = NoKeyMap
    /\ url' = ""
    /\ attempt' = 0
    /\ last_status' = NoStatus
    /\ last_error' = NoError
    /\ requests' = <<>>
    /\ responses' = <<>>
    /\ result' = NoResult
    /\ error' = NoErrorRec

(* "continue" and the end of the loop body: on to the next source, or to   *)
(* the statements after the loop.                                          *)
NextSource ==
    /\ cidx' = cidx + 1
    /\ cpc' = IF cidx + 1 > Len(sources) THEN "report" ELSE "api"

(* Lines 28-43: the sources are loaded, the locals are empty. *)
MainStart(srcs, dr) ==
    /\ cpc = "idle"
    /\ sources' = srcs
    /\ dry_run' = dr
    /\ cidx' = 1
    /\ cpc' = "api"
    /\ UNCHANGED <<main_api_values, main_html_values, records, validation_issues, printed,
                   exported, api_results, html_results>>
    /\ UNCHANGED <<fetchVars, otherVars>>

(* Lines 46-48: the call of api_client.fetch. *)
MainApiCall ==
    /\ cpc = "api"
    /\ ApiFetch(sources[cidx].api.cfg, sources[cidx].api.base_url, _build_context(sources[cidx]),
                DefaultMaxRetries, sources[cidx].api.json_key_map)
    /\ UNCHANGED cliVars

MainApiRequest(o) ==
    /\ cpc = "api"
    /\ ApiRequest(o)
    /\ UNCHANGED cliVars

(* Lines 48 and 50-52: fetch returned its value, or raised and the source  *)
(* is skipped.                                                             *)
MainApiReturn ==
    /\ cpc = "api"
    /\ variant = "api"
    /\ pc \in {"returned", "raised"}
    /\ FetchReset
    /\ UNCHANGED otherVars
    /\ UNCHANGED <<sources, dry_run, main_html_values, records, validation_issues, exported,
                   api_results, html_results>>
    /\ IF pc = "raised" THEN
           /\ printed' = Append(printed, "[error] Source '" \o sources[cidx].id \o "' failed")
           /\ NextSource
           /\ UNCHANGED main_api_values
       ELSE
           /\ main_api_values' = AsValueMap(result)
           /\ cpc' = "html"
           /\ UNCHANGED <<cidx, printed>>

(* Line 49: the call of scraper.fetch_and_parse. *)
MainHtmlCall ==
    /\ cpc = "html"
    /\ HtmlFetchAndParse(sources[cidx].html.cfg, sources[cidx].html.url,
                         _build_context(sources[cidx]), DefaultMaxRetries)
    /\ UNCHANGED cliVars

MainHtmlRequest(o) ==
    /\ cpc = "html"
    /\ HtmlRequest(o)
    /\ UNCHANGED cliVars

MainHtmlLoopExit ==
    /\ cpc = "html"
    /\ HtmlLoopExit
    /\ UNCHANGED cliVars

(* Lines 49 and 50-52: fetch_and_parse returned its value, or raised and   *)
(* the source is skipped.                                                  *)
MainHtmlReturn ==
    /\ cpc = "html"
    /\ variant = "html"
    /\ pc \in {"returned", "raised"}
    /\ FetchReset
    /\ UNCHANGED otherVars
    /\ UNCHANGED <<sources, dry_run, main_api_values, records, validation_issues, exported,
                   api_results, html_results>>
    /\ IF pc = "raised" THEN
           /\ printed' = Append(printed, "[error] Source '" \o sources[cidx].id \o "' failed")
           /\ NextSource
           /\ UNCHANGED main_html_values
       ELSE
           /\ main_html_values' = AsValueMap(result)
           /\ cpc' = "process"
           /\ UNCHANGED <<cidx, printed>>

(* Lines 54-64, outside the try statement: the results are kept, the       *)
(* record is normalised, appended and validated.  An exception of          *)
(* normalize_record is caught nowhere and ends the run.                    *)
MainProcess ==
    /\ cpc = "process"
    /\ UNCHANGED <<fetchVars, otherVars>>
    /\ UNCHANGED <<sources, dry_run, main_api_values, main_html_values, printed, exported>>
    /\ api_results' = DictSet(api_results, sources[cidx].id, main_api_values)
    /\ html_results' = DictSet(html_results, sources[cidx].id, main_html_values)
    /\ LET source == sources[cidx]
           record == normalize_record(source.mapping.unified_fields, source.mapping.field_types,
                                      main_api_values, main_html_values)
           required_fields == RequiredFields(source.mapping.unified_fields)
           issues == validate_records(<<record.val>>, required_fields)
       IN  IF record.raised # "" THEN
               /\ cpc' = "crashed"
               /\ UNCHANGED <<cidx, records, validation_issues>>
           ELSE
               /\ records' = Append(records, record.val)
               /\ validation_issues' = validation_issues \o IssueLines(source.id, issues)
               /\ NextSource

(* Lines 66-82: the validation report, then the export unless --dry-run. *)
MainFinish ==
    /\ cpc = "report"
    /\ UNCHANGED <<fetchVars, otherVars>>
    /\ UNCHANGED <<sources, dry_run, cidx, main_api_values, main_html_values, records,
                   validation_issues, api_results, html_results>>
    /\ cpc' = "done"
    /\ LET report == IF validation_issues # <<>>
                     THEN "[validation] Issues found: " \o JoinLines(validation_issues)
                     ELSE "[validation] No issues"
       IN  IF dry_run THEN
               /\ printed' = printed \o <<report, "[dry-run] Skipping export">>
               /\ UNCHANGED exported
           ELSE
               /\ printed' = printed \o <<report, "[export] Wrote records">>
               /\ exported' = [done |-> TRUE, rows |-> records]

(* The run specification: main over bounded lists of sources. *)
MainNext ==
    \/ \E srcs \in SourceLists, dr \in BOOLEAN : MainStart(srcs, dr)
    \/ MainApiCall
    \/ \E o \in MainApiOutcomes : MainApiRequest(o)
    \/ MainApiReturn
    \/ MainHtmlCall
    \/ \E o \in MainHtmlOutcomes : MainHtmlRequest(o)
    \/ MainHtmlLoopExit
    \/ MainHtmlReturn
    \/ MainProcess
    \/ MainFinish

MainSpec == Init /\ [][MainNext]_vars

----------------------------------------------------------------------------
(* Vocabulary of the properties, stated without the model's helpers *)

Done == pc \in {"returned", "raised"}

Is2xx(o) == o.kind = "resp" /\ o.status \in 200..299

Is4xx(o) == o.kind = "resp" /\ o.status \in 400..499

Is5xx(o) == o.kind = "resp" /\ o.status \in 500..599

IsRetryableFailure(o) == o.kind = "exc" \/ Is5xx(o)

IsJsonBody(b) == b \in {"json_list", "json_map"}

AllRetryable(rs, n) == \A i \in 1..n : IsRetryableFailure(rs[i])

Placeholders(t) == {t[i].s : i \in {j \in 1..Len(t) : t[j].ph}}

RECURSIVE Substituted(_, _)
Substituted(t, m) ==
    IF t = <<>> THEN ""
    ELSE (IF Head(t).ph THEN m[Head(t).s] ELSE Head(t).s) \o Substituted(Tail(t), m)

FirstMissing(t, m) ==
    LET missing == {i \in 1..Len(t) : t[i].ph /\ t[i].s \notin DOMAIN m}
    IN  t[CHOOSE i \in missing : \A j \in missing : i <= j].s

(* The reference walk of a JSON tree along path segments. *)
IsBase10(seg) ==
    /\ seg # <<>>
    /\ \A i \in 1..Len(seg) : seg[i] \in {"0", "1", "2", "3", "4", "5", "6", "7", "8", "9"}

RECURSIVE RefWalk(_, _)
RefWalk(node, segs) ==
    IF segs = <<>> THEN node
    ELSE IF node.t = "map" THEN
        IF Head(segs) \in DOMAIN node.m THEN RefWalk(node.m[Head(segs)], Tail(segs)) ELSE JNull
    ELSE IF node.t = "list" THEN
        IF IsBase10(Head(segs)) /\ IntOf(Head(segs)) < Len(node.l)
        THEN RefWalk(node.l[IntOf(Head(segs)) + 1], Tail(segs))
        ELSE JNull
    ELSE JNull

----------------------------------------------------------------------------
(* C1: ApiClient.fetch on an enabled source with max_retries N >= 2: while *)
(* the upstream has answered k < N retryable failures (5xx responses or    *)
(* transport errors) the call goes on to the next attempt, and when a 2xx  *)
(* response with a JSON body follows k >= 1 such failures the call returns *)
(* the extracted values with exactly k + 1 requests issued.                *)
C1_RetryThenSuccess ==
    (variant = "api" /\ cfg = "enabled" /\ max_retries >= 2) =>
        LET n == Len(responses) IN
        /\ (n >= 1 /\ n < max_retries /\ AllRetryable(responses, n))
               => (pc = "attempting" /\ attempt = n + 1 /\ Len(requests) = n)
        /\ (n >= 2 /\ AllRetryable(responses, n - 1)
                   /\ Is2xx(responses[n]) /\ IsJsonBody(responses[n].body))
               => /\ pc = "returned"
                  /\ Len(requests) = n
                  /\ result.kind = "values"
                  /\ result.values = [k \in DOMAIN json_key_map |->
                         RefWalk(Payload(responses[n].body), Split(json_key_map[k]))]

C1_Witness ==
    /\ variant = "api"
    /\ max_retries >= 3
    /\ Len(responses) = 3
    /\ responses[1].kind = "exc"
    /\ Is5xx(responses[2])
    /\ responses[3] = Resp(200, "json_list")
    /\ json_key_map # NoKeyMap
    /\ pc = "returned"
    /\ result.values["id"] = JNum(8)
    /\ Len(requests) = 3

(* C2: fetch_html: the first 2xx response received within the attempt      *)
(* budget, after retryable failures only, ends the call in success with    *)
(* that response's text, and no further request is issued (one 5xx then    *)
(* one 2xx with max_retries = 2: the text after exactly 2 requests).       *)
C2_HtmlFirst2xxReturnsText ==
    (variant = "html" /\ cfg = "enabled") =>
        \A i \in 1..Len(responses) :
            (AllRetryable(responses, i - 1) /\ Is2xx(responses[i]))
                => /\ pc = "returned"
                   /\ result.kind = "text"
                   /\ result.text = responses[i].body
                   /\ Len(requests) = i

(* C3: in both fetch variants a 4xx response ends the call at once with a  *)
(* fetch error (ApiError / ScrapeError) carrying that status, and no       *)
(* request is issued after it, whatever max_retries is.                    *)
C3_NoRetryOn4xx ==
    \A i \in 1..Len(responses) :
        Is4xx(responses[i]) =>
            /\ i = Len(responses)
            /\ Len(requests) = i
            /\ pc = "raised"
            /\ error.type = (IF variant = "api" THEN "ApiError" ELSE "ScrapeError")
            /\ error.status_code = responses[i].status

C3_Witness ==
    /\ variant = "html"
    /\ max_retries = 3
    /\ responses = <<Resp(404, "")>>
    /\ Len(requests) = 1
    /\ pc = "raised"
    /\ error.type = "ScrapeError"

(* C4: for every max_retries N >= 1 and every sequence of upstream         *)
(* outcomes, a call of either fetcher issues at most N requests and then   *)
(* terminates, returning or raising.                                       *)
C4_AtMostNRequestsThenEnds ==
    /\ [](max_retries >= 1 => Len(requests) <= max_retries)
    /\ ((pc = "attempting" /\ max_retries >= 1) ~> Done)

C4_Witness ==
    /\ max_retries >= 2
    /\ Len(requests) = max_retries
    /\ \A i \in 1..Len(responses) : ~Is4xx(responses[i])
    /\ pc = "raised"

(* C5: when the source's spec is absent or has enabled = false, both       *)
(* fetchers return None without issuing a request and without raising,     *)
(* whatever the URL template and the context are.                          *)
C5_DisabledReturnsNone ==
    (pc # "idle" /\ cfg \in {"absent", "disabled"}) =>
        /\ pc = "returned"
        /\ result = ReturnNone
        /\ requests = <<>>
        /\ error = NoErrorRec

C5_Witness ==
    /\ cfg = "disabled"
    /\ context.given
    /\ "slug" \in Placeholders(url_template)
    /\ "slug" \notin DOMAIN context.m
    /\ DOMAIN context.m # {}
    /\ max_retries >= 1
    /\ pc = "returned"
    /\ result = ReturnNone

(* C6: in ApiClient.fetch a 2xx response whose body is not JSON ends the   *)
(* call at once with an ApiError; no request follows it even when attempts *)
(* remain.                                                                 *)
C6_NonJsonBodyIsFatal ==
    variant = "api" =>
        \A i \in 1..Len(responses) :
            (Is2xx(responses[i]) /\ ~IsJsonBody(responses[i].body)) =>
                /\ i = Len(responses)
                /\ Len(requests) = i
                /\ pc = "raised"
                /\ error.type = "ApiError"
                /\ error.cause = "ValueError"

C6_Witness ==
    /\ variant = "api"
    /\ max_retries >= 2
    /\ responses = <<Resp(200, "not json")>>
    /\ Len(requests) = 1
    /\ pc = "raised"

(* C7: URL templating in both fetchers: with a non-empty context that      *)
(* supplies every placeholder the requests go to the substituted URL; with *)
(* a non-empty context that lacks a placeholder the call raises an error   *)
(* naming the missing key before any request; with an empty or absent      *)
(* context the template is used unmodified and no templating error is      *)
(* raised.                                                                 *)
C7_TemplatingAsymmetry ==
    (pc # "idle" /\ cfg = "enabled") =>
        IF context.given /\ DOMAIN context.m # {} THEN
            IF Placeholders(url_template) \subseteq DOMAIN context.m THEN
                /\ url = Substituted(url_template, context.m)
                /\ \A i \in 1..Len(requests) : requests[i] = Substituted(url_template, context.m)
                /\ error.cause # "KeyError"
                /\ (requests = <<>> /\ max_retries >= 1) => pc = "attempting"
            ELSE
                /\ pc = "raised"
                /\ error.cause = "KeyError"
                /\ error.key = FirstMissing(url_template, context.m)
                /\ requests = <<>>
        ELSE
            /\ url = TemplateText(url_template)
            /\ \A i \in 1..Len(requests) : requests[i] = TemplateText(url_template)
            /\ error.cause # "KeyError"
            /\ (requests = <<>> /\ max_retries >= 1) => pc = "attempting"

C7_Witness ==
    /\ variant = "html"
    /\ cfg = "enabled"
    /\ Placeholders(url_template) = {"slug", "id"}
    /\ context.given
    /\ DOMAIN context.m = {"id"}
    /\ pc = "raised"
    /\ error.key = "slug"
    /\ requests = <<>>

SlugTemplate == <<Lit("https://x/"), Ph("slug")>>

(* C8 as stated: the template "https://x/{slug}" with an empty context     *)
(* fails with a missing-key error identifying "slug", and with the context *)
(* {"slug": "item"} it yields "https://x/item".                            *)
C8_EmptyContextFails ==
    (pc # "idle" /\ cfg = "enabled" /\ url_template = SlugTemplate) =>
        /\ DOMAIN context.m = {} => (pc = "raised" /\ error.key = "slug")
        /\ DOMAIN context.m = {"slug"} => (url = "https://x/item" /\ error.key = "")

(* C8 amended: the template "https://x/{slug}" with an empty or absent     *)
(* context is requested unmodified, as "https://x/{slug}", with no error;  *)
(* the missing-key error identifying "slug" is raised when the context is  *)
(* non-empty and has no "slug"; with {"slug": "item"} the URL is           *)
(* "https://x/item".                                                       *)
C8_EmptyContextPassesThrough ==
    (pc # "idle" /\ cfg = "enabled" /\ url_template = SlugTemplate) =>
        /\ DOMAIN context.m = {}
               => /\ url = "https://x/{slug}"
                  /\ error.key = ""
                  /\ \A i \in 1..Len(requests) : requests[i] = "https://x/{slug}"
        /\ DOMAIN context.m = {"id"}
               => (pc = "raised" /\ error.key = "slug" /\ requests = <<>>)
        /\ DOMAIN context.m = {"slug"}
               => /\ url = "https://x/item"
                  /\ error.key = ""
                  /\ \A i \in 1..Len(requests) : requests[i] = "https://x/item"

C8_Witness ==
    /\ url_template = SlugTemplate
    /\ cfg = "enabled"
    /\ context.given
    /\ DOMAIN context.m = {}
    /\ requests = <<"https://x/{slug}">>
    /\ error.key = ""

(* C9: for every JSON-like tree and every dot-separated path,              *)
(* extract_json_value never raises and returns the result of the reference *)
(* walk: a key lookup at a map, a base-10 index within bounds at a         *)
(* sequence, absence otherwise.                                            *)
C9_ExtractNeverRaises ==
    jpc = "done" =>
        /\ jout.raised = ""
        /\ jout.val = RefWalk(jdata, Split(jpath))

(* C10: the record normalize_record returns has the key set of            *)
(* unified_fields; a field whose mapping expression has no dot is absent;  *)
(* otherwise the origin is the text before the first dot and the key all   *)
(* the text after it, and the raw value is api_values[key] for origin api  *)
(* with API values present, html_values[key] for origin html with HTML     *)
(* values present, and absent in every other case; the field holds the raw *)
(* value, converted when the field has a declared type.  With API values   *)
(* absent every api field is absent and html fields keep their values.     *)
FirstDot(e) == CHOOSE i \in 1..Len(e) : e[i] = "." /\ \A j \in 1..(i - 1) : e[j] # "."

OriginOf(e) == SubSeq(e, 1, FirstDot(e) - 1)

KeyOf(e) == SubSeq(e, FirstDot(e) + 1, Len(e))

RawValue(e, api_values, html_values) ==
    IF \A i \in 1..Len(e) : e[i] # "." THEN PyNone
    ELSE IF OriginOf(e) = <<"api">> /\ api_values.given /\ KeyOf(e) \in DOMAIN api_values.m
        THEN api_values.m[KeyOf(e)]
    ELSE IF OriginOf(e) = <<"html">> /\ html_values.given /\ KeyOf(e) \in DOMAIN html_values.m
        THEN html_values.m[KeyOf(e)]
    ELSE PyNone

C10_RecordFollowsMapping ==
    (npc = "done" /\ nout.raised = "") =>
        /\ DOMAIN nout.val = {nfields[i].key : i \in 1..Len(nfields)}
        /\ \A i \in 1..Len(nfields) :
               LET k == nfields[i].key
                   raw == RawValue(nfields[i].expr, napi, nhtml)
               IN  /\ k \notin DOMAIN ntypes => nout.val[k] = raw
                   /\ k \in DOMAIN ntypes => nout.val[k] = _convert_value(raw, ntypes[k]).val
                   /\ (~napi.given /\ nfields[i].expr[1] = "api") => nout.val[k] = PyNone

C10_Witness ==
    /\ npc = "done"
    /\ nout.raised = ""
    /\ nfields = <<[key |-> "id", expr |-> <<"api", ".", "k", ".", "j">>],
                   [key |-> "title", expr |-> <<"html", ".", "k">>]>>
    /\ ntypes = <<>>
    /\ napi.given
    /\ DOMAIN napi.m = {<<"k">>, <<"k", ".", "j">>}
    /\ napi.m[<<"k">>] = PyInt(5)
    /\ nhtml.given
    /\ <<"k">> \in DOMAIN nhtml.m
    /\ nout.val = [k \in {"id", "title"} |->
                      IF k = "id" THEN PyStr(<<"5">>) ELSE nhtml.m[<<"k">>]]

(* C11: type coercion in normalize_record never raises: under a declared   *)
(* type float or int a raw value that converts gives the converted number  *)
(* ("9.99" as float is 9.99, "5" as int is 5), a raw value that does not   *)
(* convert gives absence, and an absent raw value or a field without a     *)
(* declared type keeps the raw value.                                      *)
ExpectedCoercion(raw, ty) ==
    IF raw = PyNone \/ ty = NoType THEN raw
    ELSE IF ty = "float" THEN
        CASE raw = PyStr(<<"9", ".", "9", "9">>) -> PyFloat(999)
          [] raw \in {PyStr(<<"5">>), PyInt(5)} -> PyFloat(500)
          [] raw.ty = "float" -> raw
          [] OTHER -> PyNone
    ELSE
        CASE raw \in {PyStr(<<"5">>), PyInt(5)} -> PyInt(5)
          [] raw = PyFloat(999) -> PyInt(9)
          [] OTHER -> PyNone

C11_CoercionNeverRaises ==
    npc = "done" =>
        /\ nout.raised = ""
        /\ \A i \in 1..Len(nfields) :
               LET k == nfields[i].key
                   ty == IF k \in DOMAIN ntypes THEN ntypes[k] ELSE NoType
               IN  nout.val[k] = ExpectedCoercion(RawValue(nfields[i].expr, napi, nhtml), ty)

(* C12: validate_records returns exactly one issue for each pair (record   *)
(* index i, required field f) whose record has no key f or holds None or   *)
(* the empty string under it, no issue for any other pair, and the issues  *)
(* come by ascending record index and, within a record, in the order the   *)
(* required fields were declared.                                          *)
AbsentOrEmpty(record, f) ==
    IF f \in DOMAIN record THEN record[f].ty = "None" \/ (record[f].ty = "str" /\ Len(record[f].s) = 0)
    ELSE TRUE

PositionIn(list, f) == CHOOSE j \in 1..Len(list) : list[j] = f

C12_OneIssuePerMissingPair ==
    vpc = "done" =>
        /\ \A i \in 1..Len(vrecords), j \in 1..Len(vrequired) :
               Cardinality({p \in 1..Len(vissues) :
                               vissues[p].index = i - 1 /\ vissues[p].field = vrequired[j]})
                   = IF AbsentOrEmpty(vrecords[i], vrequired[j]) THEN 1 ELSE 0
        /\ \A p \in 1..Len(vissues) :
               /\ vissues[p].index \in 0..(Len(vrecords) - 1)
               /\ \E j \in 1..Len(vrequired) : vissues[p].field = vrequired[j]
        /\ \A p \in 1..Len(vissues), q \in 1..Len(vissues) :
               p < q =>
                   \/ vissues[p].index < vissues[q].index
                   \/ /\ vissues[p].index = vissues[q].index
                      /\ PositionIn(vrequired, vissues[p].field)
                             < PositionIn(vrequired, vissues[q].field)

C12_Witness ==
    /\ vpc = "done"
    /\ vrecords = <<[k \in {"id", "name"} |-> PyInt(0)],
                    [k \in {"id", "name"} |-> IF k = "id" THEN PyNone ELSE PyStr(<<>>)]>>
    /\ vrequired = <<"name", "id">>
    /\ vissues = <<ValidationIssue(1, "name", "Missing required value"),
                   ValidationIssue(1, "id", "Missing required value")>>

(* C19: _split_selector returns (base, name) when the selector has the     *)
(* form base::attr(name) with the directive at the tail of the string,     *)
(* whatever parentheses the base holds, and returns the selector unchanged *)
(* with no attribute when no directive stands at its tail.                 *)
IsAttrName(s) == \A j \in 1..Len(s) : s[j] = "a"

TailDirectiveAt(s, i) ==
    /\ i \in 1..(Len(s) - 1)
    /\ s[i] = AttrOpen
    /\ s[Len(s)] = ")"
    /\ IsAttrName(SubSeq(s, i + 1, Len(s) - 1))

C19_SplitsAtTailDirective ==
    spc = "done" =>
        /\ \A i \in 1..Len(selector) :
               TailDirectiveAt(selector, i) =>
                   /\ sout.base = SubSeq(selector, 1, i - 1)
                   /\ sout.attr = Attr(SubSeq(selector, i + 1, Len(selector) - 1))
        /\ (\A i \in 1..Len(selector) : ~TailDirectiveAt(selector, i)) =>
               /\ sout.base = selector
               /\ sout.attr = NoAttr

(* C16: every SourceConfig that load_sources returns has an API or HTML    *)
(* spec that is present and enabled, and an entry whose api and html       *)
(* sections are both absent or both disabled is rejected with a            *)
(* ConfigError.                                                            *)
Usable(section) == section.present /\ section.enabled



C16_OnePresentAndEnabled ==
    lpc = "done" =>
        /\ lout.raised = "" =>
               \A i \in 1..Len(lout.sources) :
                   Usable(lout.sources[i].api) \/ Usable(lout.sources[i].html)
        /\ (\E i \in 1..Len(ldata) :
                \/ ~ldata[i].api.present /\ ~ldata[i].html.present
                \/ /\ ldata[i].api.present /\ ~ldata[i].api.enabled
                   /\ ldata[i].html.present /\ ~ldata[i].html.enabled)
               => lout.raised # ""

(* C16 as the code has it: every SourceConfig that load_sources returns    *)
(* has an API or HTML spec present (enabled or not), each enabled spec has *)
(* its URL, and the sources returned are the entries in order; the call    *)
(* raises a ConfigError exactly when some entry lacks its id, a well       *)
(* formed mapping, the URL of an enabled section, or both sections. An     *)
(* entry whose sections are both present and disabled is accepted.         *)
WellFormed(item) ==
    /\ item.id # ""
    /\ item.mapping = "ok"
    /\ item.api.present \/ item.html.present
    /\ \A section \in {item.api, item.html} :
           (section.present /\ section.enabled) => section.has_url

C16_OnePresent ==
    lpc = "done" =>
        /\ lout.raised = "" <=> \A i \in 1..Len(ldata) : WellFormed(ldata[i])
        /\ lout.raised = "" =>
               /\ Len(lout.sources) = Len(ldata)
               /\ \A i \in 1..Len(ldata) :
                      /\ lout.sources[i].id = ldata[i].id
                      /\ lout.sources[i].api = ldata[i].api
                      /\ lout.sources[i].html = ldata[i].html
                      /\ lout.sources[i].api.present \/ lout.sources[i].html.present

C16_Witness ==
    /\ lpc = "done"
    /\ lout.raised = ""
    /\ Len(lout.sources) = 2
    /\ lout.sources[1].api = Section(FALSE, FALSE)
    /\ lout.sources[1].html = Section(FALSE, FALSE)
    /\ lout.sources[2].api = NoSection
    /\ lout.sources[2].html = Section(TRUE, TRUE)

(* C17: when a fetch of either variant exhausts its attempt budget having  *)
(* met only retryable failures, the error it raises carries the URL, the   *)
(* status code of the last response seen during the call (if any, also     *)
(* when the final attempt was a transport error) and the last transport    *)
(* error as its cause (if any, also when the final attempt was a 5xx).     *)
LastOf(S) == CHOOSE i \in S : \A j \in S : j <= i

LastStatusSeen(rs) ==
    LET S == {i \in 1..Len(rs) : rs[i].kind = "resp"}
    IN  IF S = {} THEN NoStatus ELSE rs[LastOf(S)].status

LastTransportError(rs) ==
    LET E == {i \in 1..Len(rs) : rs[i].kind = "exc"}
    IN  IF E = {} THEN NoError ELSE LastOf(E)

C17_ExhaustionCarriesStatusAndCause ==
    (/\ pc = "raised"
     /\ max_retries >= 1
     /\ Len(responses) = max_retries
     /\ AllRetryable(responses, Len(responses)))
        => /\ error.url = url
           /\ error.status_code = LastStatusSeen(responses)
           /\ error.cause_at = LastTransportError(responses)

(* C18: in both fetch variants a response whose status is neither 2xx nor  *)
(* 5xx (4xx, and also 1xx or 3xx) is fatal at once: the call ends with a   *)
(* fetch error carrying the URL and that status, no request follows it,    *)
(* and its body is never parsed and returned as a successful fetch.        *)
IsOtherStatus(o) == o.kind = "resp" /\ ~Is2xx(o) /\ ~Is5xx(o)

C18_OtherStatusIsFatal ==
    \A i \in 1..Len(responses) :
        IsOtherStatus(responses[i]) =>
            /\ i = Len(responses)
            /\ pc = "raised"
            /\ result = NoResult
            /\ error.type = (IF variant = "api" THEN "ApiError" ELSE "ScrapeError")
            /\ error.url = url
            /\ error.status_code = responses[i].status
            /\ error.cause = "HTTPError"

(* C15: fetch_and_parse on an enabled HTML source whose page fetch gets a  *)
(* 2xx response returns a mapping with one entry per configured selector   *)
(* key (absent where nothing matches, else the first match's attribute or  *)
(* trimmed text).                                                          *)
C15_PageFetchedReturnsMapping ==
    (/\ variant = "html"
     /\ cfg = "enabled"
     /\ responses # <<>>
     /\ Is2xx(responses[Len(responses)]))
        => /\ pc = "returned"
           /\ result.kind = "values"

(* C13: in a run over sources s1..sn a fetch failure (API or HTML) of a    *)
(* source adds no record for it and does not stop the run: every later     *)
(* source is still fetched and normalised, and at the end the record list  *)
(* holds exactly one record per source whose fetches both completed        *)
(* without error, in configuration order.                                  *)
Lines(seq) == {seq[i] : i \in 1..Len(seq)}

FetchFailed(source) == ("[error] Source '" \o source.id \o "' failed") \in Lines(printed)

Fetched(source) == ~FetchFailed(source)

RunEnded == cpc \in {"done", "crashed"}

C13_FetchFailureIsolated ==
    RunEnded =>
        /\ cidx = Len(sources) + 1
        /\ LET completed == SelectSeq(sources, Fetched)
           IN  /\ Len(records) = Len(completed)
               /\ \A p \in 1..Len(completed) :
                      DOMAIN records[p] =
                          {completed[p].mapping.unified_fields[i].key :
                               i \in 1..Len(completed[p].mapping.unified_fields)}

(* C14: every unified field of a record in the exported list whose value   *)
(* is absent or the empty string has a validation issue naming the source  *)
(* id and the field among the reported issues, and no record with an       *)
(* absent field is exported while the run reports "No issues".             *)
SourceOfRow(p) == CHOOSE s \in Lines(sources) : s.id = api_results[p].id

Unfilled(row, k) ==
    \/ k \notin DOMAIN row
    \/ row[k].ty = "None"
    \/ row[k].ty = "str" /\ row[k].s = <<>>

C14_AbsencesReported ==
    exported.done =>
        \A p \in 1..Len(exported.rows) :
            LET fields == SourceOfRow(p).mapping.unified_fields IN
            \A i \in 1..Len(fields) :
                Unfilled(exported.rows[p], fields[i].key) =>
                    /\ \E q \in 1..Len(validation_issues) :
                           validation_issues[q] =
                               SourceOfRow(p).id \o ":" \o fields[i].key \o "@0"
                    /\ "[validation] No issues" \notin Lines(printed)
                    /\ ("[validation] Issues found: " \o JoinLines(validation_issues))
                           \in Lines(printed)

C14_Witness ==
    /\ exported.done
    /\ Len(exported.rows) = 2
    /\ exported.rows[1] = [k \in {"id"} |-> PyInt(8)]
    /\ exported.rows[2] = [k \in {"id", "title"} |-> PyNone]
    /\ validation_issues = <<"s2:id@0", "s2:title@0">>
    /\ "[validation] Issues found: s2:id@0, s2:title@0" \in Lines(printed)

====
